---- MODULE Spec2Model ----
(***************************************************************************)
(* stack_pool<T, N> of exam/stack_pool.hpp: many LIFO stacks kept in one   *)
(* std::vector<node_t>, addressed by 1-based handles, with a free list of  *)
(* recycled slots.  T is int (as in the driver), N is an unsigned integer  *)
(* type of NBits bits (std::size_t by default).                            *)
(*                                                                         *)
(* The object is the record  [pool, cap, free_nodes, under]:               *)
(*   pool        the constructed elements of the vector, pool[1..size()]   *)
(*   cap         pool.capacity()                                           *)
(*   free_nodes  head of the free list                                     *)
(*   under       the byte that pool[-1].isHead designates, i.e. memory in  *)
(*               front of the vector's buffer.  node(0) passes the range   *)
(*               test and yields pool[0 - 1], so the code reads and writes *)
(*               this byte; it is no part of any node.                     *)
(* Slots size()+1 .. capacity() are reserved, unconstructed memory: node() *)
(* lets them through, a read of one yields any value, a write to one is    *)
(* not kept by the model.                                                  *)
(* Every operation is an operator from an object and its arguments to the  *)
(* SET of its possible outcomes [P, ret, exc, oob]: the object afterwards, *)
(* the handle returned, the exception that left the call ("none" if it     *)
(* returned) and whether index -1 was accessed.  Allocation failure of the *)
(* vector is not modelled: memory for MaxSlots nodes is assumed.           *)
(***************************************************************************)
EXTENDS Integers, Sequences, FiniteSets, TLC

\* ------------------------------------------------------------ bounds
MaxSlots == 3       \* pushes that would grow the vector beyond this are not made
MaxReserve == 2     \* largest n given to the constructor stack_pool(n)

Stacks == {"A", "B"}            \* the stack handles the caller keeps
PushValues == {10, 20}          \* values the caller pushes
DebugValue == -1                \* value(x) = -1 in pop
SizeTBits == 64                 \* width of std::size_t, the default N

Max(a, b) == IF a >= b THEN a ELSE b

\* largest capacity the bounded runs can reach, and the handles the caller tries
CapLimit == Max(MaxReserve, 2 * (MaxSlots - 1))
Handles == 0 .. (CapLimit + 1)
ValueDomain == PushValues \cup {DebugValue}

VARIABLES
    pool,        \* std::vector<node_t> pool: the constructed nodes
    cap,         \* pool.capacity()
    free_nodes,  \* stack_type free_nodes
    under,       \* the byte pool[-1].isHead
    NBits,       \* width of the handle type N
    heads,       \* the caller's variables: stack -> handle it holds
    last         \* the last call made: operation, arguments, object before, outcome

vars == <<pool, cap, free_nodes, under, NBits, heads, last>>

\* the stack_pool object as a value
Obj == [pool |-> pool, cap |-> cap, free_nodes |-> free_nodes, under |-> under]

Out(P, ret, exc, oob) == [P |-> P, ret |-> ret, exc |-> exc, oob |-> oob]

\* exceptions of the header, and the two ways the process dies
Errors == {"RangeChecking", "NotStackHead", "EmptyStack", "NotEqualType"}
Fatal == {"SIGSEGV", "terminate"}

\* ------------------------------------------------------------ small members
end_ == 0

new_stack == end_

\* empty with <= 1 in place of == end(): the first slot reads as empty too
empty_first_slot(x) == x <= 1

empty(x) == x = end_

capacity(P) == P.cap

\* static_cast<stack_type>(n) for an unsigned N of `bits` bits
static_cast_stack_type(n, bits) == IF bits >= 31 THEN n ELSE n % (2 ^ bits)

\* std::vector growth when size() = capacity(): the new capacity is the
\* implementation's choice, anything from an exact fit to doubling
Grow(c) == (c + 1) .. Max(1, 2 * c)

\* ------------------------------------------------------------ node(x) and the accessors
\* node(x) throws only when x > capacity()
node_throws(P, x) == x > capacity(P)

\* pool[x - 1] with a null buffer (capacity 0) and x = 0: address -sizeof(node_t)
node_segv(P, x) == x = 0 /\ capacity(P) = 0

\* what a read of a field of node(x) can yield, for x that node() lets through
isHead_read(P, x) ==
    IF x = 0 THEN {P.under}
    ELSE IF x <= Len(P.pool) THEN {P.pool[x].isHead}
    ELSE BOOLEAN

next_read(P, x) ==
    IF x = 0 THEN Handles
    ELSE IF x <= Len(P.pool) THEN {P.pool[x].next}
    ELSE Handles

value_read(P, x) ==
    IF x = 0 THEN ValueDomain
    ELSE IF x <= Len(P.pool) THEN {P.pool[x].value}
    ELSE ValueDomain

\* the object after a write to a field of node(x), for x that node() lets through
isHead_write(P, x, b) ==
    IF x = 0 THEN [P EXCEPT !.under = b]
    ELSE IF x <= Len(P.pool) THEN [P EXCEPT !.pool[x].isHead = b]
    ELSE P

next_write(P, x, n) ==
    IF x = 0 \/ x > Len(P.pool) THEN P
    ELSE [P EXCEPT !.pool[x].next = n]

value_write(P, x, v) ==
    IF x = 0 \/ x > Len(P.pool) THEN P
    ELSE [P EXCEPT !.pool[x].value = v]

\* value(x), next(x), isHead(x) called by the user: outcomes with the value read in ret
accessor(P, f, x) ==
    IF node_throws(P, x) THEN {Out(P, 0, "RangeChecking", FALSE)}
    ELSE IF node_segv(P, x) THEN {Out(P, 0, "SIGSEGV", TRUE)}
    ELSE IF f = "value" THEN {Out(P, v, "none", x = 0) : v \in value_read(P, x)}
    ELSE IF f = "next" THEN {Out(P, n, "none", x = 0) : n \in next_read(P, x)}
    ELSE {Out(P, IF b THEN 1 ELSE 0, "none", x = 0) : b \in isHead_read(P, x)}

\* ------------------------------------------------------------ _push
\* X as deduced for the forwarding reference X&& of _push:
\* push(const T&) passes an lvalue of type const T, push(T&&) passes std::move(val)
deduced_X(overload) == IF overload = "const T&" THEN "const T&" ELSE "T"

\* std::is_same<X, value_type>::value
is_same_X_value_type(X) == X = "T"

\* push_demote without its statement: the old head keeps its mark
push_demote_skipped(P, head) == P

\* isHead(head) = false, the statement both branches of _push make on the old head
push_demote(P, head) == isHead_write(P, head, FALSE)

\* push_reuse without free_nodes = next(free_nodes): the free list stays at the
\* slot that was just given out
push_reuse_keeps_free_list(P, val, head) ==
    LET t == P.free_nodes IN
    IF node_throws(P, t) THEN {Out(P, 0, "RangeChecking", FALSE)}
    ELSE
    LET P1 == value_write(P, t, val)
        P3 == next_write(P1, t, head)
    IN  IF node_throws(P3, head) THEN {Out(P3, 0, "RangeChecking", FALSE)}
        ELSE {Out(isHead_write(push_demote(P3, head), t, TRUE), t, "none", head = 0)}

\* the branch taken when the free list is not empty
push_reuse(P, val, head) ==
    LET t == P.free_nodes IN
    IF node_throws(P, t) THEN {Out(P, 0, "RangeChecking", FALSE)}
    ELSE
    LET P1 == value_write(P, t, val) IN
    UNION { LET P2 == [P1 EXCEPT !.free_nodes = n]
                P3 == next_write(P2, t, head)
            IN  IF node_throws(P3, head) THEN {Out(P3, 0, "RangeChecking", FALSE)}
                ELSE {Out(isHead_write(push_demote(P3, head), t, TRUE), t, "none", head = 0)}
          : n \in next_read(P1, t) }

\* pool.emplace_back(val, head, true): the vector with one more element; when it
\* was full the buffer is reallocated, and the byte in front of it is another one
emplace_back(P, val, head) ==
    LET nodes == Append(P.pool, [value |-> val, next |-> head, isHead |-> TRUE]) IN
    IF Len(P.pool) < P.cap
    THEN {[P EXCEPT !.pool = nodes]}
    ELSE {[P EXCEPT !.pool = nodes, !.cap = c, !.under = u] : c \in Grow(P.cap), u \in BOOLEAN}

\* the branch taken when the free list is empty
push_append(P, val, head, bits) ==
    UNION { IF node_throws(P1, head) THEN {Out(P1, 0, "RangeChecking", FALSE)}
            ELSE {Out(push_demote(P1, head),
                      static_cast_stack_type(Len(P1.pool), bits), "none", head = 0)}
          : P1 \in emplace_back(P, val, head) }

_push(P, val, head, X, bits) ==
    IF ~is_same_X_value_type(X) THEN {Out(P, 0, "NotEqualType", FALSE)}
    ELSE IF ~empty(P.free_nodes) THEN push_reuse(P, val, head)
    ELSE push_append(P, val, head, bits)

\* the two public overloads
push(P, val, head, overload, bits) == _push(P, val, head, deduced_X(overload), bits)

\* ------------------------------------------------------------ pop
\* pop_unlink without next(x) = free_nodes: the popped node keeps its successor
pop_unlink_keeps_next(P, x, t) ==
    LET P2 == [P EXCEPT !.free_nodes = x]
        P3 == value_write(P2, x, DebugValue)
    IN  IF node_throws(P3, t) THEN Out(P3, 0, "RangeChecking", FALSE)
        ELSE Out(isHead_write(isHead_write(P3, t, TRUE), x, FALSE), t, "none", t = 0)

\* pop_unlink without isHead(x) = false: the popped node keeps its mark
pop_unlink_keeps_mark(P, x, t) ==
    LET P1 == next_write(P, x, P.free_nodes)
        P2 == [P1 EXCEPT !.free_nodes = x]
        P3 == value_write(P2, x, DebugValue)
    IN  IF node_throws(P3, t) THEN Out(P3, 0, "RangeChecking", FALSE)
        ELSE Out(isHead_write(P3, t, TRUE), t, "none", t = 0)

\* pop_unlink without free_nodes = x: the popped node is not put in the free list
pop_unlink_keeps_free_list(P, x, t) ==
    LET P1 == next_write(P, x, P.free_nodes)
        P3 == value_write(P1, x, DebugValue)
    IN  IF node_throws(P3, t) THEN Out(P3, 0, "RangeChecking", FALSE)
        ELSE Out(isHead_write(isHead_write(P3, t, TRUE), x, FALSE), t, "none", t = 0)

\* the statements of pop after its two tests, t being the value read for next(x)
pop_unlink(P, x, t) ==
    LET P1 == next_write(P, x, P.free_nodes)
        P2 == [P1 EXCEPT !.free_nodes = x]
        P3 == value_write(P2, x, DebugValue)
    IN  IF node_throws(P3, t) THEN Out(P3, 0, "RangeChecking", FALSE)
        ELSE Out(isHead_write(isHead_write(P3, t, TRUE), x, FALSE), t, "none", t = 0)

pop(P, x) ==
    IF node_throws(P, x) THEN {Out(P, 0, "RangeChecking", FALSE)}
    ELSE IF node_segv(P, x) THEN {Out(P, 0, "SIGSEGV", TRUE)}
    ELSE UNION { IF ~h THEN {Out(P, 0, "NotStackHead", x = 0)}
                 ELSE IF empty(x) THEN {Out(P, 0, "EmptyStack", TRUE)}
                 ELSE {pop_unlink(P, x, t) : t \in next_read(P, x)}
               : h \in isHead_read(P, x) }

\* pool.pop(pool.push(val, head)) as one expression: an exception of push leaves it
pop_push(P, val, head, overload, bits) ==
    UNION { IF r.exc # "none" THEN {r}
            ELSE {Out(q.P, q.ret, q.exc, r.oob \/ q.oob) : q \in pop(r.P, r.ret)}
          : r \in push(P, val, head, overload, bits) }

\* ------------------------------------------------------------ free_stack
\* while (x != end()) x = pop(x); an exception of a pop leaves the loop with
\* what the earlier pops did.  oob collects the accesses of index -1.
RECURSIVE free_stack_loop(_, _, _, _)
free_stack_loop(P, x, oob, fuel) ==
    IF x = end_ THEN {Out(P, x, "none", oob)}
    ELSE IF fuel = 0 THEN {Out(P, x, "diverges", oob)}
    ELSE UNION { IF r.exc # "none" THEN {Out(r.P, 0, r.exc, oob \/ r.oob)}
                 ELSE free_stack_loop(r.P, r.ret, oob \/ r.oob, fuel - 1)
               : r \in pop(P, x) }

\* free_stack with an if in place of the while: one pop at most
free_stack_one_pop(P, x) ==
    IF x = end_ THEN {Out(P, x, "none", FALSE)} ELSE pop(P, x)

free_stack(P, x) == free_stack_loop(P, x, FALSE, 2 * (CapLimit + 1))

\* ------------------------------------------------------------ length and traversal
\* for (it = begin(x); it != end(x); ++it) ++l;  ++it is current = pool->next(current).
\* An exception of next() inside the noexcept function is std::terminate; a handle
\* met a second time means the loop need not end.
RECURSIVE length_loop(_, _, _, _)
length_loop(P, current, l, seen) ==
    IF current = end_ THEN {[ret |-> l, exc |-> "none"]}
    ELSE IF node_throws(P, current) THEN {[ret |-> l, exc |-> "terminate"]}
    ELSE IF current \in seen THEN {[ret |-> l, exc |-> "diverges"]}
    ELSE UNION { length_loop(P, n, l + 1, seen \cup {current}) : n \in next_read(P, current) }

length(P, x) == length_loop(P, x, 0, {})

\* the handles an iterator started at x goes through, ++it by ++it, as long as they
\* are constructed nodes (at most fuel of them)
RECURSIVE Chain(_, _, _)
Chain(P, x, fuel) ==
    IF x = end_ \/ x > Len(P.pool) \/ fuel = 0 THEN << >>
    ELSE <<x>> \o Chain(P, P.pool[x].next, fuel - 1)

ChainOf(P, x) == Chain(P, x, Len(P.pool) + 1)

\* the values *it yields on that way, what print_stack(x) prints
traversal(P, x) == [i \in 1 .. Len(ChainOf(P, x)) |-> P.pool[ChainOf(P, x)[i]].value]

\* ------------------------------------------------------------ the caller and the calls
Call(op, s, x, val, how, r) ==
    [op |-> op, s |-> s, x |-> x, val |-> val, how |-> how,
     pre |-> Obj, preHeads |-> heads,
     ret |-> r.ret, exc |-> r.exc, oob |-> r.oob]

Running == last.exc \notin Fatal \cup {"diverges"}

Install(P) ==
    /\ pool' = P.pool
    /\ cap' = P.cap
    /\ free_nodes' = P.free_nodes
    /\ under' = P.under

\* stack_pool() and stack_pool(n): an empty vector with capacity n, an empty free list
Init ==
    /\ pool = << >>
    /\ cap \in 0 .. MaxReserve
    /\ free_nodes = end_
    /\ under \in BOOLEAN
    /\ NBits = SizeTBits
    /\ heads = [s \in Stacks |-> new_stack]
    /\ last = [op |-> "stack_pool", s |-> "", x |-> 0, val |-> 0, how |-> "",
               pre |-> [pool |-> << >>, cap |-> cap, free_nodes |-> end_, under |-> under],
               preHeads |-> [s \in Stacks |-> new_stack],
               ret |-> 0, exc |-> "none", oob |-> FALSE]

\* heads[s] = pool.push(v, heads[s]), v an lvalue ("const T&") or an rvalue ("T&&")
Push(s, v, how) ==
    /\ Running
    /\ free_nodes # end_ \/ Len(pool) < MaxSlots
    /\ \E r \in push(Obj, v, heads[s], how, NBits) :
        /\ Install(r.P)
        /\ heads' = IF r.exc = "none" THEN [heads EXCEPT ![s] = r.ret] ELSE heads
        /\ last' = Call("push", s, heads[s], v, how, r)
    /\ UNCHANGED NBits

\* heads[s] = pool.pop(pool.push(v, heads[s]))
PushPop(s, v, how) ==
    /\ Running
    /\ free_nodes # end_ \/ Len(pool) < MaxSlots
    /\ \E r \in pop_push(Obj, v, heads[s], how, NBits) :
        /\ Install(r.P)
        /\ heads' = IF r.exc = "none" THEN [heads EXCEPT ![s] = r.ret] ELSE heads
        /\ last' = Call("pop_push", s, heads[s], v, how, r)
    /\ UNCHANGED NBits

\* h = pool.pop(x) for the sentinel or a handle of a constructed node; the caller's
\* variable that held x takes the result
Pop(x) ==
    /\ Running
    /\ \E r \in pop(Obj, x) :
        /\ Install(r.P)
        /\ heads' = IF r.exc = "none"
                    THEN [s \in Stacks |-> IF heads[s] = x THEN r.ret ELSE heads[s]]
                    ELSE heads
        /\ last' = Call("pop", "", x, 0, "", r)
    /\ UNCHANGED NBits

\* h = pool.free_stack(x), likewise
FreeStack(x) ==
    /\ Running
    /\ \E r \in free_stack(Obj, x) :
        /\ Install(r.P)
        /\ heads' = IF r.exc = "none"
                    THEN [s \in Stacks |-> IF heads[s] = x THEN r.ret ELSE heads[s]]
                    ELSE heads
        /\ last' = Call("free_stack", "", x, 0, "", r)
    /\ UNCHANGED NBits

\* pool.value(x), pool.next(x), pool.isHead(x), read only
Access(f, x) ==
    /\ Running
    /\ \E r \in accessor(Obj, f, x) :
        last' = Call(f, "", x, 0, "", r)
    /\ UNCHANGED <<pool, cap, free_nodes, under, NBits, heads>>

\* pool.length(x)
Length(x) ==
    /\ Running
    /\ \E r \in length(Obj, x) :
        last' = Call("length", "", x, 0, "", Out(Obj, r.ret, r.exc, FALSE))
    /\ UNCHANGED <<pool, cap, free_nodes, under, NBits, heads>>

\* heads[s] = pool.push(v, head) with a handle the caller made up
PushAt(s, v, how, head) ==
    /\ Running
    /\ free_nodes # end_ \/ Len(pool) < MaxSlots
    /\ \E r \in push(Obj, v, head, how, NBits) :
        /\ Install(r.P)
        /\ heads' = IF r.exc = "none" THEN [heads EXCEPT ![s] = r.ret] ELSE heads
        /\ last' = Call("push", s, head, v, how, r)
    /\ UNCHANGED NBits

\* A caller that gives push the heads it holds, and tries pop and free_stack on
\* the sentinel and on every constructed node
Next ==
    \/ \E s \in Stacks, v \in PushValues, how \in {"const T&", "T&&"} : Push(s, v, how)
    \/ \E x \in 0 .. Len(pool) : Pop(x)
    \/ \E x \in 0 .. Len(pool) : FreeStack(x)

Spec == Init /\ [][Next]_vars

\* The same caller, also popping what a push returns in one expression
NextRoundTrip ==
    \/ Next
    \/ \E s \in Stacks, v \in PushValues, how \in {"const T&", "T&&"} : PushPop(s, v, how)

SpecRoundTrip == Init /\ [][NextRoundTrip]_vars

\* The same caller, also reading through the accessors and length with any handle
NextRead ==
    \/ Next
    \/ \E f \in {"value", "next", "isHead"}, x \in Handles : Access(f, x)
    \/ \E x \in Handles : Length(x)

SpecRead == Init /\ [][NextRead]_vars

\* A caller that also gives push and pop a handle beyond every capacity the
\* vector can have here, and, as the catch clauses of the EXAMPLE do, makes no
\* further call once it has done so
Beyond == CapLimit + 1

NextMisuse ==
    /\ last.x # Beyond
    /\ \/ \E s \in Stacks, v \in PushValues, how \in {"const T&", "T&&"} : Push(s, v, how)
       \/ \E s \in Stacks, v \in PushValues, how \in {"const T&", "T&&"} : PushAt(s, v, how, Beyond)
       \/ \E x \in (0 .. Len(pool)) \cup {Beyond} : Pop(x)
       \/ \E x \in (0 .. Len(pool)) \cup {Beyond} : FreeStack(x)

SpecMisuse == Init /\ [][NextMisuse]_vars

\* pool.new_stack(), as main calls it
NewStack ==
    /\ Running
    /\ last' = Call("new_stack", "", 0, 0, "", Out(Obj, new_stack, "none", FALSE))
    /\ UNCHANGED <<pool, cap, free_nodes, under, NBits, heads>>

\* pool.empty(x); the bool returned is kept as 1 or 0
Empty(x) ==
    /\ Running
    /\ last' = Call("empty", "", x, 0, "", Out(Obj, IF empty(x) THEN 1 ELSE 0, "none", FALSE))
    /\ UNCHANGED <<pool, cap, free_nodes, under, NBits, heads>>

\* The caller of Spec, also calling new_stack and empty with any handle
NextSentinel ==
    \/ Next
    \/ NewStack
    \/ \E x \in Handles : Empty(x)

SpecSentinel == Init /\ [][NextSentinel]_vars

\* ------------------------------------------------------------ a narrow handle type
\* stack_pool<int, N> with an unsigned N of NarrowBits bits, standing for unsigned
\* char and the like: pool.size() stops fitting N at 2^NarrowBits slots, as it
\* does at 256 for unsigned char
NarrowBits == 2
NarrowSlots == 2 ^ NarrowBits

InitNarrow ==
    /\ pool = << >>
    /\ cap \in 0 .. MaxReserve
    /\ free_nodes = end_
    /\ under \in BOOLEAN
    /\ NBits = NarrowBits
    /\ heads = [s \in Stacks |-> new_stack]
    /\ last = [op |-> "stack_pool", s |-> "", x |-> 0, val |-> 0, how |-> "",
               pre |-> [pool |-> << >>, cap |-> cap, free_nodes |-> end_, under |-> under],
               preHeads |-> [s \in Stacks |-> new_stack],
               ret |-> 0, exc |-> "none", oob |-> FALSE]

\* heads[s] = pool.push(v, heads[s]) up to the slot whose number does not fit N
PushNarrow(s, v, how) ==
    /\ Running
    /\ free_nodes # end_ \/ Len(pool) < NarrowSlots
    /\ \E r \in push(Obj, v, heads[s], how, NBits) :
        /\ Install(r.P)
        /\ heads' = IF r.exc = "none" THEN [heads EXCEPT ![s] = r.ret] ELSE heads
        /\ last' = Call("push", s, heads[s], v, how, r)
    /\ UNCHANGED NBits

\* A caller that gives push, pop and free_stack only the heads it holds
NextNarrow ==
    \/ \E s \in Stacks, v \in PushValues, how \in {"const T&", "T&&"} : PushNarrow(s, v, how)
    \/ \E s \in Stacks : Pop(heads[s])
    \/ \E s \in Stacks : FreeStack(heads[s])

SpecNarrow == InitNarrow /\ [][NextNarrow]_vars

\* ============================================================ claims
Returned(n) == {[ret |-> n, exc |-> "none"]}

Mutators == {"push", "pop", "free_stack"}

\* the slots of the free list
FreeSet(P) == {ChainOf(P, P.free_nodes)[i] : i \in 1 .. Len(ChainOf(P, P.free_nodes))}

\* following next from x ends at the sentinel, through constructed nodes, no node twice
EndsAtSentinel(P, x) ==
    LET c == ChainOf(P, x) IN
    \/ x = end_
    \/ /\ Len(c) >= 1
       /\ Len(c) <= Len(P.pool)
       /\ P.pool[c[Len(c)]].next = end_

\* C1: a stack that is new_stack() has length 0, and every push made with the head
\* the caller holds for a stack leaves that stack one longer, the pushed value in
\* front of the values it held; so N pushes from new_stack() give length N and the
\* values in reverse order of insertion, whatever the free list and the other stack.
C1_PushesGiveLengthAndOrder ==
    /\ \A s \in Stacks : heads[s] = new_stack => length(Obj, heads[s]) = Returned(0)
    /\ last.op = "push" =>
        /\ last.exc = "none"
        /\ heads[last.s] = last.ret
        /\ \E n \in 0 .. MaxSlots :
            /\ length(last.pre, last.x) = Returned(n)
            /\ length(Obj, heads[last.s]) = Returned(n + 1)
        /\ traversal(Obj, heads[last.s]) = <<last.val>> \o traversal(last.pre, last.x)

\* C2: pop(push(v, h1)) on a head h1 the caller holds returns h1, and leaves the
\* length and the values traversed from h1 as they were, h1 marked isHead again.
C2_PopAfterPushIsIdentity ==
    last.op = "pop_push" =>
        /\ last.exc = "none"
        /\ last.ret = last.x
        /\ length(Obj, last.x) = length(last.pre, last.x)
        /\ traversal(Obj, last.x) = traversal(last.pre, last.x)
        /\ last.x # end_ => pool[last.x].isHead

\* C3: with every push given a head the caller holds, each non-empty stack of the
\* caller has exactly one node marked isHead, its first, which is the handle the
\* caller holds; a call that returned a node returned a marked one that the caller
\* now holds; no node of the free list is marked.
C3_HeadInvariant ==
    /\ \A s \in Stacks : heads[s] # end_ =>
        /\ heads[s] \in 1 .. Len(pool)
        /\ {i \in 1 .. Len(ChainOf(Obj, heads[s])) : pool[ChainOf(Obj, heads[s])[i]].isHead} = {1}
    /\ \A h \in FreeSet(Obj) : ~pool[h].isHead
    /\ (last.op \in Mutators /\ last.exc = "none" /\ last.ret # end_) =>
        /\ pool[last.ret].isHead
        /\ \E s \in Stacks : heads[s] = last.ret

\* right after a pop that promoted a successor, the caller holding it, beside a
\* non-empty free list
C3_Witness ==
    /\ last.op = "pop" /\ last.exc = "none" /\ last.ret # end_
    /\ free_nodes # end_
    /\ \E s \in Stacks : heads[s] = last.ret /\ pool[heads[s]].isHead

C5_FreeListReuse ==
    /\ (last.op = "pop" /\ last.exc = "none") =>
        /\ free_nodes = last.x
        /\ Len(pool) = Len(last.pre.pool)
    /\ (last.op = "push" /\ last.pre.free_nodes # end_) =>
        /\ last.exc = "none"
        /\ last.ret = last.pre.free_nodes
        /\ Len(pool) = Len(last.pre.pool)
        /\ free_nodes = last.pre.pool[last.pre.free_nodes].next

\* C6: pop(0) raises the empty-stack error and leaves the nodes and the free list
\* as they were.
C6_PopSentinelIsEmptyStackError ==
    (last.op = "pop" /\ last.x = end_) =>
        /\ last.exc = "EmptyStack"
        /\ pool = last.pre.pool
        /\ free_nodes = last.pre.free_nodes

\* C7: pop of a constructed node that is not a head the caller holds (a node pushed
\* over, a node already popped) raises the not-a-head error and changes nothing.
C7_PopNonHeadIsNotHeadError ==
    (/\ last.op = "pop"
     /\ last.x \in 1 .. Len(last.pre.pool)
     /\ \A s \in Stacks : last.preHeads[s] # last.x) =>
        /\ last.exc = "NotStackHead"
        /\ Obj = last.pre
        /\ heads = last.preHeads

\* the second pop of a handle: it was at the head of the free list
C7_Witness ==
    /\ last.op = "pop"
    /\ last.exc = "NotStackHead"
    /\ last.x # end_
    /\ last.x = last.pre.free_nodes

\* C8: value(h), next(h) and isHead(h) raise the range error for h = 0 and for
\* every h above the number of constructed nodes.
C8_AccessorsRangeError ==
    (/\ last.op \in {"value", "next", "isHead"}
     /\ (last.x = end_ \/ last.x > Len(pool))) =>
        last.exc = "RangeChecking"

\* C9: a push of a value of the pool's value type with a head the caller holds
\* never raises the type-mismatch error, through either overload, and returns.
C9_PushNeverTypeMismatch ==
    last.op = "push" =>
        /\ last.exc # "NotEqualType"
        /\ last.exc = "none"

\* C10: a push, pop or free_stack that raised an error left the number of slots,
\* every node and the free-list head as they were.
C10_FailureAtomicity ==
    (last.op \in {"push", "pop", "free_stack"} /\ last.exc \in Errors) =>
        /\ pool = last.pre.pool
        /\ free_nodes = last.pre.free_nodes

\* the held stacks a call was not made on: for a push every stack but the one
\* pushed onto, for a pop or free_stack every stack whose head was not the argument
Others ==
    {s \in Stacks : IF last.op = "push" THEN s # last.s ELSE last.preHeads[s] # last.x}

\* the slots an iterator started at x goes through
ChainSet(P, x) == {ChainOf(P, x)[i] : i \in 1 .. Len(ChainOf(P, x))}

\* C11: a push onto, a pop of or a free_stack of one stack leaves every node
\* reachable from the head of every other held stack as it was (value, next and
\* isHead), and with it that stack's head handle, length and values, also when
\* the call grows the vector or reuses a slot of the free list.
C11_MultiStackIsolation ==
    last.op \in Mutators =>
        \A s \in Others :
            /\ heads[s] = last.preHeads[s]
            /\ \A h \in ChainSet(last.pre, last.preHeads[s]) : pool[h] = last.pre.pool[h]
            /\ length(Obj, heads[s]) = length(last.pre, last.preHeads[s])
            /\ traversal(Obj, heads[s]) = traversal(last.pre, last.preHeads[s])

\* a push that returned after the vector was reallocated, beside another stack
\* of two nodes
C11_Witness ==
    /\ last.op = "push" /\ last.exc = "none"
    /\ cap # last.pre.cap
    /\ \E s \in Others : Len(ChainOf(Obj, heads[s])) >= 2

Reverse(q) == [i \in 1 .. Len(q) |-> q[Len(q) + 1 - i]]

C13_PushNeverReturnsSentinel ==
    (last.op = "push" /\ last.exc = "none") => last.ret \in 1 .. Len(pool)

\* C14: length(h) returns a count for every handle h, without an error and
\* without ending the process, and leaves the object as it was; for the sentinel
\* and for a constructed node the count is the number of ++it steps from h to
\* the sentinel.
C14_LengthNeverFails ==
    last.op = "length" =>
        /\ last.exc = "none"
        /\ Obj = last.pre
        /\ last.x \in 0 .. Len(pool) => last.ret = Len(ChainOf(Obj, last.x))

\* C15: in every state new_stack() returns 0, and empty(h) returns true exactly
\* when h is 0; both leave the vector, every node, the free-list head and what
\* the caller holds as they were.
C15_SentinelStability ==
    /\ last.op = "new_stack" =>
        /\ last.exc = "none" /\ last.ret = 0
        /\ Obj = last.pre /\ heads = last.preHeads
    /\ last.op = "empty" =>
        /\ last.exc = "none"
        /\ (last.ret = 1) <=> (last.x = 0)
        /\ last.ret \in {0, 1}
        /\ Obj = last.pre /\ heads = last.preHeads

\* empty(0) asked while a stack and the free list both hold nodes
C15_Witness ==
    /\ last.op = "empty" /\ last.x = 0 /\ last.ret = 1
    /\ free_nodes # end_
    /\ \E s \in Stacks : heads[s] # end_

\* C16: a push onto an empty stack (head 0), appending or reusing a slot, and a
\* pop of a node, the last of its stack included (successor 0), read and write no
\* node field through the handle 0: index -1 of the vector is not accessed.
C16_NoAccessThroughSentinel ==
    /\ (last.op = "push" /\ last.x = end_) => ~last.oob
    /\ (last.op = "pop" /\ last.x # end_) => ~last.oob

\* the number of nodes in the stacks whose heads are hs
RECURSIVE LiveIn(_, _, _)
LiveIn(P, hs, S) ==
    IF S = {} THEN 0
    ELSE LET s == CHOOSE t \in S : TRUE
         IN  Len(ChainOf(P, hs[s])) + LiveIn(P, hs, S \ {s})

Live(P, hs) == LiveIn(P, hs, Stacks)

\* C17: a push appends one slot if the free list is empty when it is called and
\* none otherwise; pop and free_stack keep the number of slots; so the number
\* of slots never decreases, and it is the largest number of nodes the held
\* stacks had together so far: never fewer slots than live nodes, and a slot
\* is appended only when every slot is live.
C17_ReuseBeforeGrowth ==
    /\ last.op = "push" =>
        /\ last.pre.free_nodes = end_ => Len(pool) = Len(last.pre.pool) + 1
        /\ last.pre.free_nodes # end_ => Len(pool) = Len(last.pre.pool)
    /\ last.op \in {"pop", "free_stack"} => Len(pool) = Len(last.pre.pool)
    /\ Len(pool) >= Len(last.pre.pool)
    /\ Live(Obj, heads) <= Len(pool)
    /\ Len(pool) > Len(last.pre.pool) =>
        /\ Live(last.pre, last.preHeads) = Len(last.pre.pool)
        /\ Live(Obj, heads) = Len(pool)

\* C18: with push, pop and free_stack given the heads the caller holds, every
\* constructed slot is in exactly one of the held stacks and the free list; the
\* number of slots is the sum of the lengths of the held stacks and of the free
\* list; the free list meets no slot twice and ends at the sentinel.
C18_SlotConservation ==
    /\ \A h \in 1 .. Len(pool) :
        Cardinality({s \in Stacks : h \in ChainSet(Obj, heads[s])})
            + (IF h \in FreeSet(Obj) THEN 1 ELSE 0) = 1
    /\ Len(pool) = Live(Obj, heads) + Len(ChainOf(Obj, free_nodes))
    /\ Cardinality(FreeSet(Obj)) = Len(ChainOf(Obj, free_nodes))
    /\ EndsAtSentinel(Obj, free_nodes)

\* after a call that returned: both stacks hold nodes and so does the free list
C18_Witness ==
    /\ last.op \in Mutators /\ last.exc = "none"
    /\ \A s \in Stacks : heads[s] # end_
    /\ free_nodes # end_
    /\ Len(pool) = MaxSlots

====
